---- MODULE Spec2Model ----
(***************************************************************************)
(* LLM Chat Worker: the fetch router and handleChatRequest.                *)
(*                                                                         *)
(* The repository holds three revisions of the worker (src/src/index.ts,   *)
(* src/unnamed/part_000, src/unnamed/part_001).  The router, the body      *)
(* parse and the system-prompt step are identical in the three; the        *)
(* handling of the AI result and the catch block differ.  The variable     *)
(* impl names the revision that is deployed; it never changes.             *)
(*                                                                         *)
(* One request is followed from fetch to its response.  The handler        *)
(* suspends at its two awaits (request.json() and env.AI.run), so the      *)
(* request is handled in three steps: Fetch, JsonSettled, AiSettled.       *)
(***************************************************************************)
EXTENDS Integers, Sequences, FiniteSets, TLC

VARIABLES impl, pc, request, bodyReads, aiCalls, aiMessages, aiSettle, outcome, escaped

\* impl       the revision of the worker that is deployed
\* pc         "idle", "awaitJson" (await request.json()), "awaitAI" (await env.AI.run), "done"
\* request    the request given to fetch: method, pathname, body
\* bodyReads  calls of request.json()
\* aiCalls    calls of env.AI.run
\* aiMessages the messages array given to env.AI.run
\* aiSettle   how env.AI.run settled: resolved with a result, or rejected with a thrown value
\* outcome    what fetch returned
\* escaped    an exception left handleChatRequest
vars == <<impl, pc, request, bodyReads, aiCalls, aiMessages, aiSettle, outcome, escaped>>

(***************************************************************************)
(* Bounds of the model                                                     *)
(***************************************************************************)
\* longest messages array a request body carries
MaxMsgs == 2

(***************************************************************************)
(* Program constants                                                       *)
(***************************************************************************)
SYSTEM_PROMPT == "You are a helpful, friendly assistant. Provide concise and accurate responses."

Impls == {"index.ts", "part_000", "part_001"}

(***************************************************************************)
(* Inputs                                                                  *)
(***************************************************************************)
Methods == {"GET", "POST", "DELETE"}

Paths == {"/", "/index.html", "/api", "/api/", "/api/chat", "/api/chat/", "/api/unknown", "/apix/chat"}

Roles == {"system", "user", "assistant"}

Contents == {"X", "hi"}

\* an element of a messages array: a ChatMessage object, or a JSON null
ChatMessage(r, c) == [kind |-> "object", role |-> r, content |-> c]

NullElement == [kind |-> "null", role |-> "", content |-> ""]

Elements == {ChatMessage(r, c) : r \in Roles, c \in Contents} \cup {NullElement}

Arrays == UNION {[1..n -> Elements] : n \in 0..MaxMsgs}

\* the value of a JSON `messages` field: kind is the JSON type of the value
ArrayValue(s) == [kind |-> "array", items |-> s]

OtherValue(k) == [kind |-> k, items |-> <<>>]

\* request bodies: text that is not JSON, the JSON values null and 7, and JSON
\* objects whose messages field is absent, null, a string, a number or an array
Body(j, f) == [json |-> j, messages |-> f]

Bodies ==
    {Body("invalid", OtherValue("absent")), Body("null", OtherValue("absent")), Body("number", OtherValue("absent"))}
    \cup {Body("object", OtherValue(k)) : k \in {"absent", "null", "string", "number"}}
    \cup {Body("object", ArrayValue(s)) : s \in Arrays}

\* what env.AI.run resolves with
AiResult(k, s, b, r) == [kind |-> k, stream |-> s, body |-> b, response |-> r]

BodyStream == "stream:body"

RawStream == "stream:raw"

BodyText == "plain text body"

ResponseText == "Hello there"

\* body: "absent" no such property, "null", a byte stream, a non-empty string
\* response: "absent", a string, "number" a non-string value
AiResults ==
    {AiResult("Response", "", b, r) : b \in {"null", BodyStream}, r \in {"absent", ResponseText}}
    \cup {AiResult("ReadableStream", RawStream, "absent", "absent")}
    \cup {AiResult("object", "", b, r) : b \in {"absent", "null", BodyStream, BodyText},
                                         r \in {"absent", ResponseText, "number"}}
    \cup {AiResult("primitive", "", "absent", "absent")}

\* a thrown value: an Error object with a message, or any other value
Thrown(t, m, n) == [type |-> t, message |-> m, num |-> n]

Error(m) == Thrown("Error", m, 0)

AiFailures ==
    {Error("AI backend unavailable"), Thrown("string", "quota exceeded", 0),
     Thrown("number", "", 429), Thrown("object", "", 0)}

NoResult == AiResult("none", "", "absent", "absent")

NoError == Thrown("none", "", 0)

Settle(t, r, e) == [type |-> t, result |-> r, error |-> e]

AiSettlements ==
    {Settle("resolved", r, NoError) : r \in AiResults}
    \cup {Settle("rejected", NoResult, e) : e \in AiFailures}

(***************************************************************************)
(* Responses                                                               *)
(***************************************************************************)
\* kind: "none" nothing returned yet, "assets" the request was handed to
\* env.ASSETS.fetch, "response" a Response built by the worker
Outcome(k, st, ct, b, err, hd, d, req) ==
    [kind |-> k, status |-> st, contentType |-> ct, body |-> b,
     error |-> err, hasDetails |-> hd, details |-> d, passed |-> req]

NoRequest == [method |-> "", path |-> "", body |-> Body("invalid", OtherValue("absent"))]

NoOutcome == Outcome("none", 0, "", "", "", FALSE, "", NoRequest)

\* new Response(text, { status }): a string body gets the default content type
TextResponse(st, text) == Outcome("response", st, "text/plain;charset=UTF-8", text, "", FALSE, "", NoRequest)

\* new Response(payload, { headers: { "Content-Type": "text/plain; charset=utf-8" } })
StreamResponse(payload) == Outcome("response", 200, "text/plain; charset=utf-8", payload, "", FALSE, "", NoRequest)

\* new Response(JSON.stringify({ error }), { status: 500, ... })
ErrorResponse(err) == Outcome("response", 500, "application/json", "", err, FALSE, "", NoRequest)

\* new Response(JSON.stringify({ error, details }), { status: 500, ... })
ErrorDetailsResponse(err, d) == Outcome("response", 500, "application/json", "", err, TRUE, d, NoRequest)

\* a completion of a piece of code: it returns a value or throws
Return(v) == [type |-> "return", value |-> v, error |-> NoError]

Throw(e) == [type |-> "throw", value |-> NoOutcome, error |-> e]

(***************************************************************************)
(* fetch: the router                                                       *)
(***************************************************************************)
startsWith(s, p) == Len(s) >= Len(p) /\ SubSeq(s, 1, Len(p)) = p

\* a mutant: the API prefix is tested without its trailing slash
Route_NoSlash(method, pathname) ==
    IF pathname = "/" \/ ~startsWith(pathname, "/api") THEN "assets"
    ELSE IF pathname = "/api/chat" /\ method = "POST" THEN "chat"
    ELSE IF pathname = "/api/chat" THEN "405"
    ELSE "404"

\* a mutant: the method is not tested before the chat handler is called
Route_AnyMethod(method, pathname) ==
    IF pathname = "/" \/ ~startsWith(pathname, "/api/") THEN "assets"
    ELSE IF pathname = "/api/chat" THEN "chat"
    ELSE "404"

Route(method, pathname) ==
    IF pathname = "/" \/ ~startsWith(pathname, "/api/") THEN "assets"
    ELSE IF pathname = "/api/chat" /\ method = "POST" THEN "chat"
    ELSE IF pathname = "/api/chat" THEN "405"
    ELSE "404"

(***************************************************************************)
(* handleChatRequest: parse and system prompt                              *)
(***************************************************************************)
Ok(v) == [type |-> "return", value |-> v, error |-> NoError]

Fail(e) == [type |-> "throw", value |-> OtherValue("absent"), error |-> e]

\* a mutant: text that is not JSON is read as an empty object
Destructure_Lenient(body) ==
    IF body.json = "null" THEN Fail(Error("Cannot destructure property 'messages' of null"))
    ELSE IF body.json # "object" THEN Ok(ArrayValue(<<>>))
    ELSE IF body.messages.kind = "absent" THEN Ok(ArrayValue(<<>>))
    ELSE Ok(body.messages)

\* a mutant: the default of the destructuring is lost
Destructure_NoDefault(body) ==
    IF body.json = "invalid" THEN Fail(Error("Unexpected token in JSON"))
    ELSE IF body.json = "null" THEN Fail(Error("Cannot destructure property 'messages' of null"))
    ELSE IF body.json # "object" THEN Ok(OtherValue("absent"))
    ELSE Ok(body.messages)

\* const { messages = [] } = await request.json(): the parse rejects text that
\* is not JSON, destructuring null throws, and the default applies exactly when
\* the property is undefined
Destructure(body) ==
    IF body.json = "invalid" THEN Fail(Error("Unexpected token in JSON"))
    ELSE IF body.json = "null" THEN Fail(Error("Cannot destructure property 'messages' of null"))
    ELSE IF body.json # "object" THEN Ok(ArrayValue(<<>>))
    ELSE IF body.messages.kind = "absent" THEN Ok(ArrayValue(<<>>))
    ELSE Ok(body.messages)

\* items.some((msg) => msg.role === "system"), left to right, stopping at the
\* first hit; reading .role of a null element throws
RECURSIVE some(_)
some(items) ==
    IF items = <<>> THEN "false"
    ELSE IF Head(items).kind = "null" THEN "throw"
    ELSE IF Head(items).role = "system" THEN "true"
    ELSE some(Tail(items))

\* a mutant: the system prompt is pushed at the end
Normalize_Push(messages) ==
    IF messages.kind # "array" THEN Fail(Error("messages.some is not a function"))
    ELSE IF some(messages.items) = "throw" THEN Fail(Error("Cannot read properties of null (reading 'role')"))
    ELSE IF some(messages.items) = "false"
         THEN Ok(ArrayValue(Append(messages.items, ChatMessage("system", SYSTEM_PROMPT))))
    ELSE Ok(messages)

\* if (!messages.some(...)) messages.unshift({ role: "system", content: SYSTEM_PROMPT })
Normalize(messages) ==
    IF messages.kind # "array" THEN Fail(Error("messages.some is not a function"))
    ELSE IF some(messages.items) = "throw" THEN Fail(Error("Cannot read properties of null (reading 'role')"))
    ELSE IF some(messages.items) = "false"
         THEN Ok(ArrayValue(<<ChatMessage("system", SYSTEM_PROMPT)>> \o messages.items))
    ELSE Ok(messages)

\* the try block up to the call of env.AI.run
Prepare(body) ==
    IF Destructure(body).type = "throw" THEN Destructure(body)
    ELSE Normalize(Destructure(body).value)

(***************************************************************************)
(* handleChatRequest: the AI result                                        *)
(***************************************************************************)
\* "body" in aiResult: true of a Response (the getter of its prototype) and of
\* an object with the property; the operator throws on a value that is no object
hasBody(r) == r.kind = "Response" \/ r.body # "absent"

truthy(v) == v \notin {"absent", "null"}

\* index.ts
HandleResult_index(r) ==
    IF r.kind = "primitive" THEN Throw(Error("Cannot use 'in' operator to search for 'body'"))
    ELSE IF ~hasBody(r) \/ ~truthy(r.body) THEN Throw(Error("AI returned no body stream"))
    ELSE Return(StreamResponse(r.body))

\* part_000
HandleResult_part_000(r) ==
    IF r.kind = "Response"
    THEN IF ~truthy(r.body) THEN Throw(Error("AI Response has no body stream"))
         ELSE Return(StreamResponse(r.body))
    ELSE IF r.kind = "ReadableStream" THEN Return(StreamResponse(r.stream))
    ELSE Throw(Error("Unexpected AI result type"))

\* part_001
HandleResult_part_001(r) ==
    IF r.kind = "primitive" THEN Throw(Error("Cannot use 'in' operator to search for 'body'"))
    ELSE IF hasBody(r) /\ truthy(r.body) THEN Return(StreamResponse(r.body))
    ELSE IF r.response \notin {"absent", "number"} THEN Return(StreamResponse(r.response))
    ELSE Throw(Error("AI returned an unexpected result format"))

HandleResult(i, r) ==
    IF i = "index.ts" THEN HandleResult_index(r)
    ELSE IF i = "part_000" THEN HandleResult_part_000(r)
    ELSE HandleResult_part_001(r)

(***************************************************************************)
(* handleChatRequest: the catch block                                      *)
(***************************************************************************)
Digits == <<"0", "1", "2", "3", "4", "5", "6", "7", "8", "9">>

RECURSIVE NumberToString(_)
NumberToString(n) ==
    IF n < 10 THEN Digits[n + 1]
    ELSE NumberToString(n \div 10) \o Digits[(n % 10) + 1]

\* String(error) of a value that is no Error
String(e) ==
    IF e.type = "string" THEN e.message
    ELSE IF e.type = "number" THEN NumberToString(e.num)
    ELSE "[object Object]"

\* error instanceof Error ? error.message : String(error)
Details(e) == IF e.type = "Error" THEN e.message ELSE String(e)

\* a mutant: the error is thrown again
Catch_Rethrow(i, e) == Throw(e)

Catch(i, e) ==
    IF i = "index.ts" THEN Return(ErrorResponse("Failed to process request"))
    ELSE Return(ErrorDetailsResponse("Failed to process request", Details(e)))

(***************************************************************************)
(* The state machine                                                       *)
(***************************************************************************)
Init ==
    /\ impl \in Impls
    /\ pc = "idle"
    /\ request = NoRequest
    /\ bodyReads = 0
    /\ aiCalls = 0
    /\ aiMessages = <<>>
    /\ aiSettle = Settle("none", NoResult, NoError)
    /\ outcome = NoOutcome
    /\ escaped = FALSE

\* fetch(request, env), up to its return or to the first await of the handler
Fetch(m, p, b) ==
    /\ pc = "idle"
    /\ request' = [method |-> m, path |-> p, body |-> b]
    /\ pc' = IF Route(m, p) = "chat" THEN "awaitJson" ELSE "done"
    /\ bodyReads' = IF Route(m, p) = "chat" THEN bodyReads + 1 ELSE bodyReads
    /\ outcome' = IF Route(m, p) = "assets"
                  THEN Outcome("assets", 0, "", "", "", FALSE, "", request')
                  ELSE IF Route(m, p) = "405" THEN TextResponse(405, "Method not allowed")
                  ELSE IF Route(m, p) = "404" THEN TextResponse(404, "Not found")
                  ELSE NoOutcome
    /\ UNCHANGED <<impl, aiCalls, aiMessages, aiSettle, escaped>>

\* request.json() settles: destructuring, system prompt, call of env.AI.run;
\* a throw goes to the catch block
JsonSettled ==
    /\ pc = "awaitJson"
    /\ LET prep == Prepare(request.body)
           done == Catch(impl, prep.error)
       IN IF prep.type = "return"
          THEN /\ aiCalls' = aiCalls + 1
               /\ aiMessages' = prep.value.items
               /\ pc' = "awaitAI"
               /\ UNCHANGED <<outcome, escaped>>
          ELSE /\ outcome' = done.value
               /\ escaped' = (done.type = "throw")
               /\ pc' = "done"
               /\ UNCHANGED <<aiCalls, aiMessages>>
    /\ UNCHANGED <<impl, request, bodyReads, aiSettle>>

\* env.AI.run settles: the result is turned into the response; a rejection or
\* a throw goes to the catch block
AiSettled(s) ==
    /\ pc = "awaitAI"
    /\ aiSettle' = s
    /\ LET try == IF s.type = "rejected" THEN Throw(s.error) ELSE HandleResult(impl, s.result)
           done == IF try.type = "throw" THEN Catch(impl, try.error) ELSE try
       IN /\ outcome' = done.value
          /\ escaped' = (done.type = "throw")
    /\ pc' = "done"
    /\ UNCHANGED <<impl, request, bodyReads, aiCalls, aiMessages>>

Next ==
    \/ \E m \in Methods, p \in Paths, b \in Bodies : Fetch(m, p, b)
    \/ JsonSettled
    \/ \E s \in AiSettlements : AiSettled(s)

Spec == Init /\ [][Next]_vars

(***************************************************************************)
(* Vocabulary of the properties                                            *)
(***************************************************************************)
\* the paths of Paths under the API namespace, listed one by one
UnderApi == {"/api/", "/api/chat", "/api/chat/", "/api/unknown"}

ErrorText == "Failed to process request"

DefaultSystemMessage == [kind |-> "object", role |-> "system", content |-> SYSTEM_PROMPT]

\* handleChatRequest was called for the request
ChatCalled == bodyReads >= 1

Returned == pc = "done"

StaticDelegation == outcome.kind = "assets" /\ outcome.passed = request

Is405 == outcome.kind = "response" /\ outcome.status = 405 /\ outcome.body = "Method not allowed"

Is404 == outcome.kind = "response" /\ outcome.status = 404 /\ outcome.body = "Not found"

Count(b) == IF b THEN 1 ELSE 0

Success ==
    /\ outcome.kind = "response"
    /\ outcome.status = 200
    /\ outcome.contentType = "text/plain; charset=utf-8"
    /\ outcome.body # ""
    /\ outcome.error = ""
    /\ ~outcome.hasDetails

Failure ==
    /\ outcome.kind = "response"
    /\ outcome.status = 500
    /\ outcome.contentType = "application/json"
    /\ outcome.error = ErrorText
    /\ outcome.body = ""

\* the messages field of the request is an array of ChatMessage objects
IsConversation ==
    /\ request.body.json = "object"
    /\ request.body.messages.kind = "array"
    /\ \A k \in 1..Len(request.body.messages.items) : request.body.messages.items[k].kind = "object"

Input == request.body.messages.items

HasSystem(msgs) == \E k \in 1..Len(msgs) : msgs[k].role = "system"

\* the four result shapes of the backend contract
ShapeA(r) == r.kind = "Response" /\ r.body = BodyStream

ShapeB(r) == r.kind = "ReadableStream"

ShapeC(r) == r.kind = "object" /\ r.body = BodyStream

ShapeD(r) == r.kind = "object" /\ r.response = ResponseText

KnownShape(r) == ShapeA(r) \/ ShapeB(r) \/ ShapeC(r) \/ ShapeD(r)

\* the payload of a known shape, by the first check that matches
Payload(r) ==
    IF ShapeA(r) THEN r.body
    ELSE IF ShapeB(r) THEN r.stream
    ELSE IF ShapeC(r) THEN r.body
    ELSE r.response

\* the message text of a failure of the backend
FailureText(e) ==
    CASE e.type = "Error" -> e.message
      [] e.type = "string" -> e.message
      [] e.type = "number" /\ e.num = 429 -> "429"
      [] OTHER -> "[object Object]"

(***************************************************************************)
(* Properties                                                              *)
(***************************************************************************)
\* C1: every (method, path) pair gets exactly one of the four outcomes, by the
\* rules in order: "/" or a path outside "/api/" is handed to the static-asset
\* collaborator with the original request; POST "/api/chat" goes to the chat
\* handler; "/api/chat" with another method is 405 "Method not allowed"; any
\* other path under "/api/" is 404 "Not found".
C1_RoutingTotality ==
    pc # "idle" =>
        /\ Count(StaticDelegation) + Count(ChatCalled) + Count(Is405) + Count(Is404) = 1
        /\ StaticDelegation <=> (request.path = "/" \/ request.path \notin UnderApi)
        /\ ChatCalled <=> (request.path = "/api/chat" /\ request.method = "POST")
        /\ Is405 <=> (request.path = "/api/chat" /\ request.method # "POST")
        /\ Is404 <=> (request.path \in UnderApi /\ request.path # "/api/chat")

C1_Witness == Returned /\ request.path = "/api" /\ request.method = "POST" /\ StaticDelegation

\* C2: for every input conversation the backend is handed a conversation with a
\* system message: the default system message at index 0 followed by the
\* original messages in order when the input has none, the input unmodified
\* when it has one at any position.
C2_SystemMessage ==
    (ChatCalled /\ pc # "awaitJson" /\ IsConversation) =>
        /\ aiCalls = 1
        /\ HasSystem(aiMessages)
        /\ ~HasSystem(Input) =>
              /\ Len(aiMessages) = Len(Input) + 1
              /\ aiMessages[1] = DefaultSystemMessage
              /\ \A k \in 1..Len(Input) : aiMessages[k + 1] = Input[k]
        /\ HasSystem(Input) => aiMessages = Input

C2_Witness ==
    /\ pc = "awaitAI" /\ IsConversation /\ Len(Input) >= 2 /\ ~HasSystem(Input)
    /\ Input[1] # Input[2]
    /\ aiMessages[1] = DefaultSystemMessage

\* C3: for each of the four known backend result shapes the handler returns
\* status 200 with content type text/plain; charset=utf-8 and a body equal to
\* the payload of the shape.
C3_ShapeCoverage ==
    (Returned /\ aiSettle.type = "resolved" /\ KnownShape(aiSettle.result)) =>
        /\ Success
        /\ outcome.body = Payload(aiSettle.result)

\* C4: the handler is total and produces exactly one response: either status
\* 200, text/plain and a stream body, or status 500, application/json and the
\* fixed error field; never both, never a mixture, and no exception escapes.
C4_OneResponse ==
    /\ ~escaped
    /\ (ChatCalled /\ ~Returned) => outcome = NoOutcome
    /\ (ChatCalled /\ Returned) => Count(Success) + Count(Failure) = 1

C4_Witness == ChatCalled /\ Returned /\ aiSettle.type = "rejected" /\ Failure

\* C5: a backend result that matches none of the four known shapes yields
\* status 500 with the fixed error envelope, never a 200.
C5_UnknownShape ==
    (Returned /\ aiSettle.type = "resolved" /\ ~KnownShape(aiSettle.result)) => Failure

\* C6: a POST /api/chat whose body is not valid JSON yields status 500, never
\* a 200 and never an uncaught fault, and the backend is not invoked.
C6_ParseFailure ==
    (ChatCalled /\ pc # "awaitJson" /\ request.body.json = "invalid") =>
        /\ Returned
        /\ Failure
        /\ ~escaped
        /\ aiCalls = 0
        /\ aiSettle.type = "none"

C6_Witness == ChatCalled /\ Returned /\ request.body.json = "invalid" /\ outcome.status = 500

\* C7: when the backend invocation fails or the result shape is rejected, the
\* body of the 500 response carries the fixed error field and a details field
\* equal to the message text of the failure (the stringified value when the
\* failure is no Error object).
C7_Details ==
    (Returned /\ aiSettle.type # "none" /\ outcome.status = 500) =>
        /\ outcome.error = ErrorText
        /\ outcome.hasDetails
        /\ outcome.details # ""
        /\ aiSettle.type = "rejected" => outcome.details = FailureText(aiSettle.error)

\* C8 as stated: valid JSON whose messages field is absent or malformed at the
\* top level (null, not a sequence) is treated as the empty conversation: no
\* error path, and the backend is invoked with the default system message alone.
C8_Original ==
    (ChatCalled /\ pc # "awaitJson" /\ request.body.json = "object"
        /\ request.body.messages.kind # "array") =>
        /\ aiCalls = 1
        /\ aiMessages = <<DefaultSystemMessage>>

\* C8 amended: valid JSON whose messages field is absent is treated as the
\* empty conversation and the backend is invoked with the default system
\* message alone; a messages field that is present but null or no array (and
\* a body that is the JSON value null) takes the error path: status 500, the
\* backend is not invoked.
C8_AbsentOnly ==
    (ChatCalled /\ pc # "awaitJson") =>
        /\ (request.body.json \in {"object", "number"} /\ request.body.messages.kind = "absent") =>
              /\ aiCalls = 1
              /\ aiMessages = <<DefaultSystemMessage>>
        /\ (request.body.json = "null" \/ request.body.messages.kind \in {"null", "string", "number"}) =>
              /\ Returned
              /\ Failure
              /\ aiCalls = 0

C8_Witness ==
    /\ pc = "awaitAI" /\ request.body.json = "object" /\ request.body.messages.kind = "absent"
    /\ aiMessages = <<DefaultSystemMessage>>

\* C9: the first matching check decides: a response-like object that carries
\* no usable body yields the 500 error response and never falls through to a
\* later check, even when the object also exposes a response string.
C9_NoFallThrough ==
    (Returned /\ aiSettle.type = "resolved" /\ aiSettle.result.kind = "Response"
        /\ aiSettle.result.body = "null") => Failure

\* C10: the backend is invoked at most once per request, only for a POST to
\* exactly "/api/chat" after the body was parsed and the conversation
\* normalized; never (and the body is never read) for a request answered 405
\* or 404 or handed to the static-asset collaborator; a failed invocation is
\* not retried before the 500 response.
C10_AtMostOnce ==
    /\ aiCalls <= 1
    /\ bodyReads <= 1
    /\ aiCalls = 1 =>
          /\ request.method = "POST" /\ request.path = "/api/chat"
          /\ bodyReads = 1
          /\ pc \in {"awaitAI", "done"}
          /\ HasSystem(aiMessages)
    /\ (StaticDelegation \/ Is405 \/ Is404) => (aiCalls = 0 /\ bodyReads = 0)
    /\ aiSettle.type # "none" => (Returned /\ aiCalls = 1)

C10_Witness == Returned /\ aiSettle.type = "rejected" /\ aiCalls = 1 /\ outcome.status = 500

====
